---- MODULE Spec2Model ----
(***************************************************************************)
(* Model of backend/main.py (Easy LXC Backend API): the in-memory task     *)
(* registry TASK_STORE with its expiry sweep, the background runner        *)
(* run_tracked_task, the image catalog cache of get_available_images, and  *)
(* the container listing list_containers with its CPU sample cache.        *)
(*                                                                         *)
(* Texts whose characters matter (stderr, OS names, releases) are          *)
(* sequences of one-character strings; labels that are only concatenated   *)
(* are strings.  An Optional field is {} for None and {v} for the value v. *)
(***************************************************************************)
EXTENDS Integers, Sequences, FiniteSets, TLC

VARIABLES
    now,                \* the wall clock read by time.time()
    TASK_STORE,         \* main.py:53, task id -> TaskResult
    pc,                 \* per task id: position of its handler, then of its runner
    background_tasks,   \* arguments given to background_tasks.add_task, per task id
    result,             \* what run_script returned to the runner of each task id
    taskResp,           \* the response of get_task_status, when the last step was that call
    handler,            \* locals of the request handler running on the event loop
    issued_at,          \* history: when each task id was issued by a handler
    IMAGES_CACHE,       \* main.py:39
    LAST_CACHE_UPDATE,  \* main.py:40
    imgResp,            \* the response of get_available_images, when the last step was that call
    CPU_CACHE,          \* main.py:43, container name -> [time, usage]
    containers,         \* the hypervisor: container name -> [status, usage, boot]
    cache_boot,         \* history: the boot of the container at which its cached sample was taken
    poller,             \* per list_containers thread: its local current_time, once read
    listResp,           \* the response of list_containers, when the last step was that call
    sweeper             \* per get_task_status thread: its position and locals

taskVars == <<TASK_STORE, pc, background_tasks, result, handler, issued_at>>
imgVars == <<IMAGES_CACHE, LAST_CACHE_UPDATE, imgResp>>
cpuVars == <<CPU_CACHE, containers, cache_boot, poller, listResp>>
vars == <<now, TASK_STORE, pc, background_tasks, result, taskResp, handler, issued_at,
          IMAGES_CACHE, LAST_CACHE_UPDATE, imgResp,
          CPU_CACHE, containers, cache_boot, poller, listResp, sweeper>>

----------------------------------------------------------------------------
(* Bounds and program constants *)

MaxTicks == 3
MaxImages == 3

TASK_EXPIRY == 300
CACHE_DURATION == 3600

WHITELIST_OS == <<
    <<"d","e","b","i","a","n">>,
    <<"u","b","u","n","t","u">>,
    <<"k","a","l","i">> >>

\* The process starts long after the epoch: time.time() is far above both windows.
StartTime == 2 * CACHE_DURATION
TaskTick == TASK_EXPIRY \div 2
ImageTick == CACHE_DURATION \div 2

\* The task ids uuid4 hands out, in the order it does.
TaskIds == {1, 2}
\* An id that uuid4 never hands out.
ForeignId == 0

None == {}
Some(v) == {v}
Val(o) == CHOOSE v \in o : TRUE

----------------------------------------------------------------------------
(* Texts *)

Whitespace == {" ", "\t", "\n", "\r", "\f"}

RECURSIVE lstrip(_)
lstrip(s) ==
    IF s = << >> THEN << >>
    ELSE IF Head(s) \in Whitespace THEN lstrip(Tail(s)) ELSE s

RECURSIVE rstrip(_)
rstrip(s) ==
    IF s = << >> THEN << >>
    ELSE IF s[Len(s)] \in Whitespace THEN rstrip(SubSeq(s, 1, Len(s) - 1)) ELSE s

\* str.strip()
strip(s) == rstrip(lstrip(s))

\* Python's `a or b` on texts: the empty text is falsy.
OrElse(a, b) == IF a # << >> THEN a ELSE b

UnknownError ==
    <<"U","n","k","n","o","w","n"," ","e","r","r","o","r"," ",
      "o","c","c","u","r","r","e","d">>

DiskFull == <<"d","i","s","k"," ","f","u","l","l">>

\* The stderr texts the external scripts are taken to produce.
StderrTexts ==
    { << >>, <<" ">>, <<"\n", " ", "\t">>,
      DiskFull, <<" ", " ">> \o DiskFull \o <<"\n">>,
      <<"x", " ", "y", " ", "\n">> }

----------------------------------------------------------------------------
(* Task registry *)

\* Container names the requests are taken to carry.
Names == {"web"}

\* TaskResult(task_id=..., status="pending", action=..., target=...): the other
\* fields take their defaults, created_at = time.time().
TaskResult(task_id, action, target, current_time) ==
    [task_id |-> task_id, status |-> "pending", action |-> action, target |-> target,
     message |-> None, error |-> None,
     created_at |-> current_time, completed_at |-> None]

Expired_whenCompleted(task, current_time) ==
    /\ task.completed_at # None
    /\ current_time - Val(task.completed_at) > TASK_EXPIRY

Expired_signFlipped(task, current_time) == task.created_at - current_time < TASK_EXPIRY

\* The test of the comprehension in cleanup_old_tasks.
Expired(task, current_time) == current_time - task.created_at > TASK_EXPIRY

cleanup_old_tasks(store, current_time) ==
    LET expired == {task_id \in DOMAIN store : Expired(store[task_id], current_time)}
    IN  [task_id \in DOMAIN store \ expired |-> store[task_id]]

InsertPending_missing(store, task_id, task) == store

\* TASK_STORE[task_id] = TaskResult(...)
InsertPending(store, task_id, task) ==
    [k \in DOMAIN store \cup {task_id} |-> IF k = task_id THEN task ELSE store[k]]

\* What the external process can do: exit 0, exit non-zero, or fail to launch.
ProcessOutcomes ==
    [launched : {TRUE}, returncode : {0, 1}, stderr : StderrTexts]
        \cup {[launched |-> FALSE, returncode |-> 0, stderr |-> << >>]}

\* One outcome of each kind, for the runs in which the text does not matter.
OutcomeKinds ==
    { [launched |-> TRUE, returncode |-> 0, stderr |-> << >>],
      [launched |-> TRUE, returncode |-> 1, stderr |-> DiskFull],
      [launched |-> FALSE, returncode |-> 0, stderr |-> << >>] }

\* run_script: subprocess.run(..., check=True) inside `except CalledProcessError`.
\* A launch failure is an OSError, which the except clause does not name.
run_script(outcome) ==
    IF ~outcome.launched THEN [raised |-> TRUE, success |-> FALSE, stderr |-> << >>]
    ELSE IF outcome.returncode = 0
         THEN [raised |-> FALSE, success |-> TRUE, stderr |-> outcome.stderr]
         ELSE [raised |-> FALSE, success |-> FALSE, stderr |-> outcome.stderr]

MarkRunning_skipped(store, task_id) == store

\* TASK_STORE[task_id].status = "running"
MarkRunning(store, task_id) == [store EXCEPT ![task_id].status = "running"]

\* An assignment through the local `task`: it reaches the store only while the
\* object is still held there.
Through(store, task_id, field, value) ==
    IF task_id \in DOMAIN store THEN [store EXCEPT ![task_id][field] = value] ELSE store

FinalStatus_alwaysSuccess(res) == "success"

FinalStatus(res) == IF res.success THEN "success" ELSE "error"

\* f"{action} completed successfully for {target}"
SuccessMessage(action, target) == action \o " completed successfully for " \o target

ErrorText_unstripped(stderr) == OrElse(stderr, UnknownError)

\* result["stderr"].strip() or "Unknown error occurred"
ErrorText(stderr) == OrElse(strip(stderr), UnknownError)

Terminal == {"success", "error"}

\* The body get_task_status returns for a record.
TaskBody(task) ==
    [task_id |-> task.task_id, status |-> task.status, action |-> task.action,
     target |-> task.target, message |-> task.message, error |-> task.error,
     completed |-> task.status \in Terminal]

\* No response is on its way to a client.
NoResponse == [task_id |-> ForeignId, code |-> 0, body |-> None]

NotFound(task_id) == [task_id |-> task_id, code |-> 404, body |-> None]
Found(task_id, task) == [task_id |-> task_id, code |-> 200, body |-> Some(TaskBody(task))]

----------------------------------------------------------------------------
(* Actions on the task registry *)

\* uuid4 never repeats an id: ids are handed out in order.
FreshId(i) == pc[i] = "fresh" /\ \A j \in TaskIds : j < i => pc[j] # "fresh"

\* First statement of a handler: the pending record is stored.
HandlerInsert(i, script_name, action, target) ==
    /\ handler = None
    /\ FreshId(i)
    /\ TASK_STORE' = InsertPending(TASK_STORE, i, TaskResult(i, action, target, now))
    /\ handler' = Some([task_id |-> i, script_name |-> script_name,
                        action |-> action, target |-> target])
    /\ issued_at' = [issued_at EXCEPT ![i] = Some(now)]
    /\ pc' = [pc EXCEPT ![i] = "inserted"]
    /\ taskResp' = NoResponse
    /\ UNCHANGED <<now, background_tasks, result, imgVars, cpuVars, sweeper>>

\* background_tasks.add_task(run_tracked_task, task_id, script, args, action, target)
HandlerAddTask(i, script_name) ==
    /\ handler # None
    /\ Val(handler).task_id = i
    /\ Val(handler).script_name = script_name
    /\ pc[i] = "inserted"
    /\ background_tasks' = [background_tasks EXCEPT ![i] = handler]
    /\ pc' = [pc EXCEPT ![i] = "queued"]
    /\ taskResp' = NoResponse
    /\ UNCHANGED <<now, TASK_STORE, result, handler, issued_at, imgVars, cpuVars, sweeper>>

\* return {"message": ..., "task_id": task_id}: the response leaves, and the
\* framework then starts the queued background task.
HandlerReturn(i, script_name) ==
    /\ handler # None
    /\ Val(handler).task_id = i
    /\ Val(handler).script_name = script_name
    /\ pc[i] = "queued"
    /\ handler' = None
    /\ pc' = [pc EXCEPT ![i] = "returned"]
    /\ taskResp' = NoResponse
    /\ UNCHANGED <<now, TASK_STORE, background_tasks, result, issued_at, imgVars, cpuVars, sweeper>>

Handler(script_name, action) ==
    \E i \in TaskIds :
        \/ \E name \in Names : HandlerInsert(i, script_name, action, name)
        \/ HandlerAddTask(i, script_name)
        \/ HandlerReturn(i, script_name)

create_container == Handler("create-ct", "Container creation")

stop_container == Handler("stop-ct", "Stop container")

start_container == Handler("start-ct", "Start container")

get_task_status(task_id) ==
    LET swept == cleanup_old_tasks(TASK_STORE, now)
    IN  /\ TASK_STORE' = swept
        /\ taskResp' = IF task_id \notin DOMAIN swept
                       THEN NotFound(task_id)
                       ELSE Found(task_id, swept[task_id])
        /\ UNCHANGED <<now, pc, background_tasks, result, handler, issued_at, imgVars, cpuVars, sweeper>>

get_task_status_request == \E task_id \in TaskIds \cup {ForeignId} : get_task_status(task_id)

\* line 168
RunnerStart(i) ==
    /\ pc[i] = "returned"
    /\ IF i \in DOMAIN TASK_STORE
       THEN /\ TASK_STORE' = MarkRunning(TASK_STORE, i)
            /\ pc' = [pc EXCEPT ![i] = "in_script"]
       ELSE /\ pc' = [pc EXCEPT ![i] = "raised_KeyError"]
            /\ UNCHANGED TASK_STORE
    /\ taskResp' = NoResponse
    /\ UNCHANGED <<now, background_tasks, result, handler, issued_at, imgVars, cpuVars, sweeper>>

\* line 170
RunnerScript(i, outcomes) ==
    /\ pc[i] = "in_script"
    /\ \E outcome \in outcomes :
         LET res == run_script(outcome)
         IN  IF res.raised
             THEN /\ pc' = [pc EXCEPT ![i] = "raised_OSError"]
                  /\ UNCHANGED result
             ELSE /\ pc' = [pc EXCEPT ![i] = "got_result"]
                  /\ result' = [result EXCEPT ![i] = Some(res)]
    /\ taskResp' = NoResponse
    /\ UNCHANGED <<now, TASK_STORE, background_tasks, handler, issued_at, imgVars, cpuVars, sweeper>>

\* line 172
RunnerLookup(i) ==
    /\ pc[i] = "got_result"
    /\ IF i \in DOMAIN TASK_STORE
       THEN /\ pc' = [pc EXCEPT ![i] = "have_task"]
            /\ UNCHANGED result
       ELSE /\ pc' = [pc EXCEPT ![i] = "raised_KeyError"]
            /\ UNCHANGED result
    /\ taskResp' = NoResponse
    /\ UNCHANGED <<now, TASK_STORE, background_tasks, handler, issued_at, imgVars, cpuVars, sweeper>>

\* line 173
RunnerStamp(i) ==
    /\ pc[i] = "have_task"
    /\ TASK_STORE' = Through(TASK_STORE, i, "completed_at", Some(now))
    /\ pc' = [pc EXCEPT ![i] = "stamped"]
    /\ taskResp' = NoResponse
    /\ UNCHANGED <<now, background_tasks, result, handler, issued_at, imgVars, cpuVars, sweeper>>

\* lines 175-176 and 178-179
RunnerStatus(i) ==
    /\ pc[i] = "stamped"
    /\ TASK_STORE' = Through(TASK_STORE, i, "status", FinalStatus(Val(result[i])))
    /\ pc' = [pc EXCEPT ![i] = "status_set"]
    /\ taskResp' = NoResponse
    /\ UNCHANGED <<now, background_tasks, result, handler, issued_at, imgVars, cpuVars, sweeper>>

\* lines 177 and 180
RunnerText(i) ==
    /\ pc[i] = "status_set"
    /\ LET res == Val(result[i])
           bg == Val(background_tasks[i])
       IN  TASK_STORE' =
             IF res.success
             THEN Through(TASK_STORE, i, "message", Some(SuccessMessage(bg.action, bg.target)))
             ELSE Through(TASK_STORE, i, "error", Some(ErrorText(res.stderr)))
    /\ pc' = [pc EXCEPT ![i] = "done"]
    /\ taskResp' = NoResponse
    /\ UNCHANGED <<now, background_tasks, result, handler, issued_at, imgVars, cpuVars, sweeper>>

run_tracked_task(outcomes) ==
    \E i \in TaskIds :
        \/ RunnerStart(i)
        \/ RunnerScript(i, outcomes)
        \/ RunnerLookup(i)
        \/ RunnerStamp(i)
        \/ RunnerStatus(i)
        \/ RunnerText(i)

----------------------------------------------------------------------------
(* get_task_status on the threads of the pool, statement by statement *)

\* The threads of the pool that serve get_task_status.
Sweepers == {1, 2}

Idle ==
    [pc |-> "idle", task_id |-> ForeignId, current_time |-> 0,
     used |-> 0, pos |-> 0, expired |-> << >>]

SweeperFrame ==
    <<now, pc, background_tasks, result, handler, issued_at, imgVars, cpuVars>>

\* The call starts: cleanup_old_tasks reads the clock and the comprehension
\* takes an iterator over TASK_STORE.items(), which remembers the size of the
\* dictionary.
sweep_begin(s, task_id) ==
    /\ sweeper[s].pc = "idle"
    /\ sweeper' = [sweeper EXCEPT ![s] =
                     [pc |-> "scanning", task_id |-> task_id, current_time |-> now,
                      used |-> Cardinality(DOMAIN TASK_STORE), pos |-> 0,
                      expired |-> << >>]]
    /\ taskResp' = NoResponse
    /\ UNCHANGED <<TASK_STORE, SweeperFrame>>

\* The items the iterator has not passed: a dictionary keeps insertion order
\* and the ids are inserted in increasing order.
Ahead(store, pos) == {task_id \in DOMAIN store : task_id > pos}
Min(S) == CHOOSE x \in S : \A y \in S : x <= y

\* One step of the iterator: it raises RuntimeError when the dictionary has
\* changed size since the iterator was taken, and otherwise hands the next
\* item to the test of the comprehension, or ends the comprehension.
sweep_scan(s) ==
    /\ sweeper[s].pc = "scanning"
    /\ LET w == sweeper[s]
           ahead == Ahead(TASK_STORE, w.pos)
       IN  sweeper' = [sweeper EXCEPT ![s] =
             IF Cardinality(DOMAIN TASK_STORE) # w.used
             THEN [w EXCEPT !.pc = "raised_RuntimeError"]
             ELSE IF ahead = {}
             THEN [w EXCEPT !.pc = "deleting"]
             ELSE [w EXCEPT !.pos = Min(ahead),
                            !.expired =
                               IF Expired(TASK_STORE[Min(ahead)], w.current_time)
                               THEN Append(@, Min(ahead)) ELSE @]]
    /\ taskResp' = NoResponse
    /\ UNCHANGED <<TASK_STORE, SweeperFrame>>

\* One turn of `for task_id in expired: del TASK_STORE[task_id]`, or its end.
sweep_del(s) ==
    /\ sweeper[s].pc = "deleting"
    /\ LET w == sweeper[s]
       IN  IF w.expired = << >>
           THEN /\ sweeper' = [sweeper EXCEPT ![s].pc = "swept"]
                /\ UNCHANGED TASK_STORE
           ELSE IF Head(w.expired) \in DOMAIN TASK_STORE
           THEN /\ TASK_STORE' = [k \in DOMAIN TASK_STORE \ {Head(w.expired)} |->
                                    TASK_STORE[k]]
                /\ sweeper' = [sweeper EXCEPT ![s].expired = Tail(@)]
           ELSE /\ sweeper' = [sweeper EXCEPT ![s].pc = "raised_KeyError"]
                /\ UNCHANGED TASK_STORE
    /\ taskResp' = NoResponse
    /\ UNCHANGED SweeperFrame

\* if task_id not in TASK_STORE: raise HTTPException(status_code=404, ...)
sweep_check(s) ==
    /\ sweeper[s].pc = "swept"
    /\ IF sweeper[s].task_id \in DOMAIN TASK_STORE
       THEN /\ sweeper' = [sweeper EXCEPT ![s].pc = "checked"]
            /\ taskResp' = NoResponse
       ELSE /\ sweeper' = [sweeper EXCEPT ![s] = Idle]
            /\ taskResp' = NotFound(sweeper[s].task_id)
    /\ UNCHANGED <<TASK_STORE, SweeperFrame>>

\* task = TASK_STORE[task_id] and the return of the body.
sweep_answer(s) ==
    /\ sweeper[s].pc = "checked"
    /\ IF sweeper[s].task_id \in DOMAIN TASK_STORE
       THEN /\ sweeper' = [sweeper EXCEPT ![s] = Idle]
            /\ taskResp' = Found(sweeper[s].task_id, TASK_STORE[sweeper[s].task_id])
       ELSE /\ sweeper' = [sweeper EXCEPT ![s].pc = "raised_KeyError"]
            /\ taskResp' = NoResponse
    /\ UNCHANGED <<TASK_STORE, SweeperFrame>>

get_task_status_thread(s) ==
    \/ \E task_id \in TaskIds \cup {ForeignId} : sweep_begin(s, task_id)
    \/ sweep_scan(s)
    \/ sweep_del(s)
    \/ sweep_check(s)
    \/ sweep_answer(s)

----------------------------------------------------------------------------
(* Image catalog *)

EmptyDict == [k \in {} |-> << >>]

Range(s) == {s[k] : k \in DOMAIN s}

UpperChars ==
    <<"A","B","C","D","E","F","G","H","I","J","K","L","M",
      "N","O","P","Q","R","S","T","U","V","W","X","Y","Z">>
LowerChars ==
    <<"a","b","c","d","e","f","g","h","i","j","k","l","m",
      "n","o","p","q","r","s","t","u","v","w","x","y","z">>
Digits == <<"0","1","2","3","4","5","6","7","8","9">>

\* The characters of the image properties, in code point order.
CodeOrder == <<".">> \o Digits \o UpperChars \o LowerChars

CodeRank(c) == CHOOSE k \in DOMAIN CodeOrder : CodeOrder[k] = c

lower_char(c) ==
    IF c \in Range(UpperChars)
    THEN LowerChars[CHOOSE k \in DOMAIN UpperChars : UpperChars[k] = c]
    ELSE c

\* str.lower()
lower(s) == [k \in DOMAIN s |-> lower_char(s[k])]

\* a < b on Python strings: lexicographic by code point.
RECURSIVE TextLess(_, _)
TextLess(a, b) ==
    IF b = << >> THEN FALSE
    ELSE IF a = << >> THEN TRUE
    ELSE IF Head(a) = Head(b) THEN TextLess(Tail(a), Tail(b))
    ELSE CodeRank(Head(a)) < CodeRank(Head(b))

RECURSIVE insert_ascending(_, _)
insert_ascending(x, sorted) ==
    IF sorted = << >> THEN <<x>>
    ELSE IF TextLess(x, Head(sorted)) THEN <<x>> \o sorted
    ELSE <<Head(sorted)>> \o insert_ascending(x, Tail(sorted))

\* Where x goes in a list that is in descending order.
RECURSIVE insert_descending(_, _)
insert_descending(x, sorted) ==
    IF sorted = << >> THEN <<x>>
    ELSE IF TextLess(Head(sorted), x) THEN <<x>> \o sorted
    ELSE <<Head(sorted)>> \o insert_descending(x, Tail(sorted))

\* list.sort(reverse=True)
RECURSIVE sort_reverse(_)
sort_reverse(releases) ==
    IF releases = << >> THEN << >>
    ELSE insert_descending(Head(releases), sort_reverse(Tail(releases)))

\* `not x` on an Optional text: None and the empty text are falsy.
Falsy(o) == o = None \/ o = Some(<< >>)

\* The loop over raw_images, lines 474-491.
RECURSIVE process_images(_, _)
process_images(images, processed) ==
    IF images = << >> THEN processed
    ELSE LET props == Head(images).properties
             rest == Tail(images)
         IN  IF Falsy(props.os) \/ Falsy(props.release)
             THEN process_images(rest, processed)
             ELSE LET os_name == lower(Val(props.os))
                      release == Val(props.release)
                  IN  IF os_name \notin Range(WHITELIST_OS)
                      THEN process_images(rest, processed)
                      ELSE LET seen == IF os_name \in DOMAIN processed
                                       THEN processed[os_name] ELSE << >>
                               grown == IF release \in Range(seen)
                                        THEN seen ELSE Append(seen, release)
                           IN  process_images(rest,
                                 [k \in DOMAIN processed \cup {os_name} |->
                                    IF k = os_name THEN grown ELSE processed[k]])

\* Lines 472-495: the catalog built from the images the query returned.
build_catalog(images) ==
    LET processed == process_images(images, EmptyDict)
    IN  [os_name \in DOMAIN processed |-> sort_reverse(processed[os_name])]

\* `if IMAGES_CACHE and (current_time - LAST_CACHE_UPDATE < CACHE_DURATION)`
CacheValid(cache, last_update, current_time) ==
    /\ DOMAIN cache # {}
    /\ current_time - last_update < CACHE_DURATION

NoImageResponse == [queries |-> 0, query |-> "none", raw |-> << >>, ret |-> None]

ImageResponse(outcome, ret) ==
    [queries |-> 1, query |-> outcome.kind, raw |-> outcome.images, ret |-> Some(ret)]

RefreshFailed_stamped(cache, last_update, current_time, outcome) ==
    [cache |-> cache, last_update |-> current_time,
     resp |-> ImageResponse(outcome, EmptyDict)]

\* The except branch, lines 502-504: nothing was assigned before the failure.
RefreshFailed(cache, last_update, current_time, outcome) ==
    [cache |-> cache, last_update |-> last_update,
     resp |-> ImageResponse(outcome, EmptyDict)]

\* Lines 472-500.
RefreshDone(current_time, outcome) ==
    LET processed == build_catalog(outcome.images)
    IN  [cache |-> processed, last_update |-> current_time,
         resp |-> ImageResponse(outcome, processed)]

\* Lines 448-504: the query, then the catalog or the except branch.
Refresh(cache, last_update, current_time, outcome) ==
    IF outcome.kind = "ok"
    THEN RefreshDone(current_time, outcome)
    ELSE RefreshFailed(cache, last_update, current_time, outcome)

Str_ubuntu == <<"u","b","u","n","t","u">>
Str_Ubuntu == <<"U","b","u","n","t","u">>
Str_Debian == <<"D","e","b","i","a","n">>
Str_KALI == <<"K","A","L","I">>
Str_fedora == <<"f","e","d","o","r","a">>
Str_24_04 == <<"2","4",".","0","4">>
Str_9 == <<"9">>
Str_10 == <<"1","0">>

Image(os, release) == [properties |-> [os |-> os, release |-> release]]

\* The images the external registry is taken to list.
ImagePool ==
    { Image(None, Some(Str_9)),
      Image(Some(<< >>), Some(<< >>)),
      Image(Some(Str_fedora), Some(Str_9)),
      Image(Some(Str_Ubuntu), Some(Str_24_04)),
      Image(Some(Str_ubuntu), Some(Str_9)),
      Image(Some(Str_ubuntu), Some(Str_10)),
      Image(Some(Str_Debian), Some(Str_10)),
      Image(Some(Str_KALI), None) }

ImageLists == UNION {[1..n -> ImagePool] : n \in 0..MaxImages}

\* What `lxc image list ... --format=json` and json.loads can do: a list of
\* images, a non-zero exit, a failure to launch, output that does not parse.
QueryOutcomes ==
    {[kind |-> "ok", images |-> l] : l \in ImageLists}
        \cup {[kind |-> k, images |-> << >>] : k \in {"nonzero", "oserror", "unparsable"}}

\* One call runs to its return before the next is taken up.
get_available_images ==
    /\ imgResp = NoImageResponse
    /\ IF CacheValid(IMAGES_CACHE, LAST_CACHE_UPDATE, now)
       THEN /\ imgResp' = [NoImageResponse EXCEPT !.ret = Some(IMAGES_CACHE)]
            /\ UNCHANGED <<IMAGES_CACHE, LAST_CACHE_UPDATE>>
       ELSE \E outcome \in QueryOutcomes :
              LET done == Refresh(IMAGES_CACHE, LAST_CACHE_UPDATE, now, outcome)
              IN  /\ IMAGES_CACHE' = done.cache
                  /\ LAST_CACHE_UPDATE' = done.last_update
                  /\ imgResp' = done.resp
    /\ taskResp' = NoResponse
    /\ UNCHANGED <<now, taskVars, cpuVars, sweeper>>

\* The response of get_available_images has been sent.
images_returned ==
    /\ imgResp # NoImageResponse
    /\ imgResp' = NoImageResponse
    /\ UNCHANGED <<now, taskVars, taskResp, IMAGES_CACHE, LAST_CACHE_UPDATE, cpuVars, sweeper>>

----------------------------------------------------------------------------
(* The container listing: list_containers and the CPU sample cache *)

\* The containers of the host are restarted this many times in all.
MaxBoots == 1

NS_PER_SECOND == 1000000000
PERCENT == 100
ROUND_DIGITS == 2

\* The cumulative CPU counter is kept in units of NS_PER_SECOND / PERCENT
\* nanoseconds, so that the readings of a long-running container are small
\* integers: 5e9 ns is 500 units.
CounterUnit == NS_PER_SECOND \div PERCENT
UnitsPerSecond == NS_PER_SECOND \div CounterUnit
\* The readings cpu.usage takes, in counter units.
CpuReadings == {0, 500, 600}
\* time.time() is read in whole seconds.
ListTick == 1

\* The containers of the host, in the order lxc list prints them.
ContainerNames == <<"a", "b">>
\* The threads of the pool that serve list_containers.
Pollers == {1, 2}

RECURSIVE pow10(_)
pow10(n) == IF n = 0 THEN 1 ELSE 10 * pow10(n - 1)

\* num / den rounded to the nearest integer, ties to the even one (den > 0).
RoundHalfEven(num, den) ==
    LET q == num \div den
        r == num % den
    IN  IF 2 * r < den THEN q
        ELSE IF 2 * r > den THEN q + 1
        ELSE IF q % 2 = 0 THEN q ELSE q + 1

\* cpu_usage is the int 0 it is initialised to, or the float round(..., 2)
\* returns, kept as a count of hundredths of a percent.
IntZero == [float |-> FALSE, hundredths |-> 0]
Float(h) == [float |-> TRUE, hundredths |-> h]

\* The value without round(): the rate as the fraction num / den percent.
cpu_rate_exact(prev, current_time, current_cpu) ==
    [num |-> (current_cpu - prev.usage) * PERCENT,
     den |-> UnitsPerSecond * (current_time - prev.time)]

cpu_rate_undivided(prev, current_time, current_cpu) ==
    LET time_delta == current_time - prev.time
        rate == cpu_rate_exact(prev, current_time, current_cpu)
    IN  IF time_delta > 0
        THEN Float(RoundHalfEven(rate.num * pow10(ROUND_DIGITS), UnitsPerSecond))
        ELSE IntZero

cpu_rate(prev, current_time, current_cpu) ==
    LET time_delta == current_time - prev.time
        rate == cpu_rate_exact(prev, current_time, current_cpu)
    IN  IF time_delta > 0
        THEN Float(RoundHalfEven(rate.num * pow10(ROUND_DIGITS), rate.den))
        ELSE IntZero

cpu_usage_of(name, cache, current_time, current_cpu) ==
    IF name \in DOMAIN cache
    THEN cpu_rate(cache[name], current_time, current_cpu)
    ELSE IntZero

\* f"{cpu_usage}%"
cpu_time_of(cpu_usage) == <<cpu_usage, "%">>

Sample(time, usage) == [time |-> time, usage |-> usage]

cache_write_ifRated(cache, name, current_time, current_cpu) ==
    IF name \in DOMAIN cache /\ current_time - cache[name].time > 0
    THEN [n \in DOMAIN cache \cup {name} |->
            IF n = name THEN Sample(current_time, current_cpu) ELSE cache[n]]
    ELSE cache

cache_write(cache, name, current_time, current_cpu) ==
    [n \in DOMAIN cache \cup {name} |->
        IF n = name THEN Sample(current_time, current_cpu) ELSE cache[n]]

\* One entry of net["addresses"], one item of state["network"].
Addr(family, address) == [family |-> family, address |-> address]
Iface(ifname, is_dict, addresses) ==
    [ifname |-> ifname, is_dict |-> is_dict, addresses |-> addresses]

\* The inner loop: every inet address assigns ipv4, there is no break.
RECURSIVE scan_addresses(_, _)
scan_addresses(addresses, ipv4) ==
    IF addresses = << >> THEN ipv4
    ELSE IF Head(addresses).family = "inet"
         THEN scan_addresses(Tail(addresses), Head(addresses).address)
         ELSE scan_addresses(Tail(addresses), ipv4)

RECURSIVE scan_network(_, _)
scan_network(network, ipv4) ==
    IF network = << >> THEN ipv4
    ELSE LET net == Head(network)
         IN  IF net.ifname # "lo" /\ net.is_dict
             THEN scan_network(Tail(network), scan_addresses(net.addresses, ipv4))
             ELSE scan_network(Tail(network), ipv4)

ipv4_of(network) == scan_network(network, "-")

\* What an lxc exec gives back: subprocess.run raised, or a return code and
\* a stdout that is empty, an integer, a float or something else.
Completed(returncode, form, value) ==
    [raised |-> FALSE, returncode |-> returncode, form |-> form, value |-> value]
Raised == [raised |-> TRUE, returncode |-> 0, form |-> "empty", value |-> 0]

\* int(float(text)) and int(text): None where they raise ValueError.
int_float(res) == IF res.form \in {"int", "float"} THEN Some(res.value) ELSE None
int_only(res) == IF res.form = "int" THEN Some(res.value) ELSE None

\* The body of a fallback try block: the new value, or the old one where the
\* condition is false or an exception was swallowed.
fallback(res, parsed, usage) ==
    IF res.raised THEN usage
    ELSE IF res.returncode = 0 /\ res.form # "empty"
         THEN IF parsed # None THEN Val(parsed) ELSE usage
         ELSE usage

RECURSIVE sum_usage(_)
sum_usage(disk) == IF disk = << >> THEN 0 ELSE Head(disk) + sum_usage(Tail(disk))

Device(dev_name, type, listen, connect) ==
    [dev_name |-> dev_name, type |-> type, listen |-> listen, connect |-> connect]

\* if dev_config.get("type") == "proxy":
is_proxy_anyType(d) == TRUE
is_proxy(d) == d.type = "proxy"

RECURSIVE proxies(_, _)
proxies(name, devices) ==
    IF devices = << >> THEN << >>
    ELSE LET d == Head(devices)
         IN  (IF is_proxy(d)
              THEN <<[container |-> name, device_name |-> d.dev_name,
                      listen |-> d.listen, connect |-> d.connect]>>
              ELSE << >>) \o proxies(name, Tail(devices))

Get(field, default) == IF field = None THEN default ELSE Val(field)

\* if status == "Running" and state:
Live_anyStatus(c) == c.state # None
Live(c) == c.status = "Running" /\ c.state # None

\* One turn of the loop over the listing: the entry appended to containers,
\* the entries appended to redirections, the lxc exec commands issued and
\* CPU_CACHE afterwards.  o is the listing's item c with what the two lxc exec
\* commands would give back for it.
observe(o, cache, current_time) ==
    LET c == o.c
        name == c.name
        live == Live(c)
        state == Val(c.state)
        memory_first == IF live THEN state.memory ELSE 0
        memory_usage == IF live /\ memory_first = 0
                        THEN fallback(o.free, int_float(o.free), memory_first)
                        ELSE memory_first
        disk_first == IF live THEN sum_usage(state.disk) ELSE 0
        disk_usage == IF live /\ disk_first = 0
                      THEN fallback(o.df, int_only(o.df), disk_first)
                      ELSE disk_first
        cpu_usage == IF live
                     THEN cpu_usage_of(name, cache, current_time, state.cpu)
                     ELSE IntZero
    IN  [view |-> [name |-> name,
                   status |-> c.status,
                   ipv4 |-> IF live THEN ipv4_of(state.network) ELSE "-",
                   memory |-> memory_usage,
                   disk |-> disk_usage,
                   cpu_time |-> cpu_time_of(cpu_usage),
                   os |-> IF c.config = None THEN "-"
                          ELSE Get(Val(c.config).os, "Unknown"),
                   release |-> IF c.config = None THEN "-"
                               ELSE Get(Val(c.config).release, "Unknown"),
                   architecture |-> IF c.config = None THEN "-"
                                    ELSE Get(Val(c.config).architecture, "Unknown")],
         redirections |-> IF live THEN proxies(name, c.devices) ELSE << >>,
         execs |-> (IF live /\ memory_first = 0 THEN <<<<name, "free">>>> ELSE << >>)
                   \o (IF live /\ disk_first = 0 THEN <<<<name, "df">>>> ELSE << >>),
         cache |-> IF live
                   THEN cache_write(cache, name, current_time, state.cpu)
                   ELSE cache]

\* The loop over the listing, from the accumulator acc.
RECURSIVE observe_all(_, _, _)
observe_all(raw, acc, current_time) ==
    IF raw = << >> THEN acc
    ELSE LET one == observe(Head(raw), acc.cache, current_time)
         IN  observe_all(Tail(raw),
                         [containers |-> Append(acc.containers, one.view),
                          redirections |-> acc.redirections \o one.redirections,
                          execs |-> acc.execs \o one.execs,
                          cache |-> one.cache],
                         current_time)

list_containers_body(raw, cache, current_time) ==
    observe_all(raw,
                [containers |-> << >>, redirections |-> << >>,
                 execs |-> << >>, cache |-> cache],
                current_time)

\* The items lxc list prints beside name, status and cpu, and what the two
\* lxc exec commands would give back.
Lo == Iface("lo", TRUE, <<Addr("inet", "127.0.0.1"), Addr("inet6", "::1")>>)
Config(os, release, architecture) ==
    [os |-> os, release |-> release, architecture |-> architecture]
Detail(state_present, network, memory, free, disk, df, devices, config) ==
    [state_present |-> state_present, network |-> network, memory |-> memory,
     free |-> free, disk |-> disk, df |-> df, devices |-> devices,
     config |-> config]

Details ==
    << Detail(TRUE,
             <<Lo, Iface("eth0", TRUE, <<Addr("inet", "10.0.0.5")>>),
                   Iface("docker0", TRUE, <<Addr("inet", "172.17.0.1")>>)>>,
             0, Completed(0, "int", 4096),
             <<0>>, Completed(0, "float", 8192),
             <<Device("root", "disk", "", ""),
               Device("web", "proxy", "tcp:0.0.0.0:8080", "tcp:127.0.0.1:80"),
               Device("eth0", "nic", "", ""),
               Device("ssh", "proxy", "tcp:0.0.0.0:2222", "tcp:127.0.0.1:22")>>,
             Some(Config(Some("ubuntu"), Some("22.04"), Some("amd64")))),
      Detail(FALSE,
             << >>,
             0, Raised,
             << >>, Raised,
             <<Device("web", "proxy", "tcp:0.0.0.0:8080", "tcp:127.0.0.1:80")>>,
             Some(Config(Some("debian"), None, None))),
      Detail(TRUE,
             <<Lo>>,
             2048, Raised,
             <<100, 50>>, Raised,
             << >>,
             None),
      Detail(TRUE,
             <<Iface("eth0", TRUE, <<Addr("inet6", "fe80::1"), Addr("inet", "10.0.0.7"),
                                     Addr("inet", "10.0.0.8")>>)>>,
             0, Raised,
             << >>, Completed(1, "int", 8192),
             <<Device("web", "proxy", "tcp:0.0.0.0:8080", "tcp:127.0.0.1:80")>>,
             Some(Config(Some("kali"), Some("2024"), Some("arm64")))),
      Detail(TRUE,
             <<Iface("eth0", FALSE, << >>)>>,
             0, Completed(0, "float", 1024),
             <<0, 0>>, Completed(0, "int", 512),
             <<Device("eth0", "nic", "", "")>>,
             None),
      Detail(TRUE,
             <<Iface("eth0", TRUE, <<Addr("inet", "10.0.0.9")>>)>>,
             0, Completed(0, "junk", 0),
             <<0>>, Completed(0, "empty", 0),
             << >>,
             None) >>

\* The item of the listing for container name, with detail d.
Item(name, d) ==
    LET k == containers[name]
    IN  [c |-> [name |-> name,
                status |-> k.status,
                state |-> IF d.state_present
                          THEN Some([network |-> d.network,
                                     memory |-> d.memory,
                                     disk |-> d.disk,
                                     cpu |-> IF k.status = "Running" THEN k.usage ELSE 0])
                          ELSE None,
                config |-> d.config,
                devices |-> d.devices],
         free |-> d.free,
         df |-> d.df]

\* The listings: every detail with every container, container k with the
\* detail k - 1 places after the first one's.
DetailsAt(first) ==
    [k \in DOMAIN ContainerNames |-> Details[((first + k - 2) % Len(Details)) + 1]]

Listing(details) == [k \in DOMAIN ContainerNames |-> Item(ContainerNames[k], details[k])]

NoListResponse ==
    [kind |-> "none", containers |-> << >>, redirections |-> << >>, execs |-> << >>,
     raw |-> << >>, current_time |-> 0, before |-> << >>, thread |-> 0]

Index(name) == CHOOSE k \in DOMAIN ContainerNames : ContainerNames[k] = name

RECURSIVE Boots(_)
Boots(names) ==
    IF names = << >> THEN 0 ELSE containers[Head(names)].boot + Boots(Tail(names))

\* The container is started: its CPU counter starts again from zero.
lxc_started(name) ==
    /\ containers[name].status = "Stopped"
    /\ Boots(ContainerNames) < MaxBoots
    /\ containers' = [containers EXCEPT ![name] =
                        [status |-> "Running", usage |-> 0, boot |-> @.boot + 1]]
    /\ taskResp' = NoResponse
    /\ UNCHANGED <<now, taskVars, imgVars, CPU_CACHE, cache_boot, poller, listResp, sweeper>>

lxc_stopped(name) ==
    /\ containers[name].status = "Running"
    /\ containers' = [containers EXCEPT ![name].status = "Stopped", ![name].usage = 0]
    /\ taskResp' = NoResponse
    /\ UNCHANGED <<now, taskVars, imgVars, CPU_CACHE, cache_boot, poller, listResp, sweeper>>

\* A running container uses CPU time: its counter grows to reading.
lxc_cpu_consumed(name, reading) ==
    /\ containers[name].status = "Running"
    /\ reading > containers[name].usage
    /\ containers' = [containers EXCEPT ![name].usage = reading]
    /\ taskResp' = NoResponse
    /\ UNCHANGED <<now, taskVars, imgVars, CPU_CACHE, cache_boot, poller, listResp, sweeper>>

\* current_time = time.time()
list_begin(p) ==
    /\ poller[p] = None
    /\ listResp = NoListResponse
    /\ poller' = [poller EXCEPT ![p] = Some(now)]
    /\ taskResp' = NoResponse
    /\ UNCHANGED <<now, taskVars, imgVars, CPU_CACHE, containers, cache_boot, listResp, sweeper>>

\* lxc list failed, or its output did not parse: the except clause answers.
list_failed(p) ==
    /\ poller[p] # None
    /\ listResp = NoListResponse
    /\ listResp' = [NoListResponse EXCEPT !.kind = "error", !.thread = p,
                                          !.current_time = Val(poller[p]),
                                          !.before = CPU_CACHE]
    /\ poller' = [poller EXCEPT ![p] = None]
    /\ taskResp' = NoResponse
    /\ UNCHANGED <<now, taskVars, imgVars, CPU_CACHE, containers, cache_boot, sweeper>>

\* lxc list answered: the loop over its items and the return.
list_done(p, details) ==
    /\ poller[p] # None
    /\ listResp = NoListResponse
    /\ LET current_time == Val(poller[p])
           raw == Listing(details)
           out == list_containers_body(raw, CPU_CACHE, current_time)
       IN  /\ CPU_CACHE' = out.cache
           /\ cache_boot' = [n \in DOMAIN cache_boot |->
                               IF Live(raw[Index(n)].c) THEN containers[n].boot
                               ELSE cache_boot[n]]
           /\ listResp' = [kind |-> "ok", containers |-> out.containers,
                           redirections |-> out.redirections, execs |-> out.execs,
                           raw |-> raw, current_time |-> current_time,
                           before |-> CPU_CACHE, thread |-> p]
    /\ poller' = [poller EXCEPT ![p] = None]
    /\ taskResp' = NoResponse
    /\ UNCHANGED <<now, taskVars, imgVars, containers, sweeper>>

list_containers(p) ==
    \/ list_begin(p)
    \/ list_failed(p)
    \/ \E first \in DOMAIN Details : list_done(p, DetailsAt(first))

\* The response of list_containers has been sent.
list_returned ==
    /\ listResp # NoListResponse
    /\ listResp' = NoListResponse
    /\ taskResp' = NoResponse
    /\ UNCHANGED <<now, taskVars, imgVars, CPU_CACHE, containers, cache_boot, poller, sweeper>>

----------------------------------------------------------------------------
(* Specifications *)

\* time.time() moves on between two steps.
Tick(step) ==
    /\ now + step <= StartTime + MaxTicks * step
    /\ imgResp = NoImageResponse
    /\ listResp = NoListResponse
    /\ now' = now + step
    /\ taskResp' = NoResponse
    /\ UNCHANGED <<taskVars, imgVars, cpuVars, sweeper>>

Init ==
    /\ now = StartTime
    /\ TASK_STORE = << >>
    /\ pc = [i \in TaskIds |-> "fresh"]
    /\ background_tasks = [i \in TaskIds |-> None]
    /\ result = [i \in TaskIds |-> None]
    /\ taskResp = NoResponse
    /\ handler = None
    /\ issued_at = [i \in TaskIds |-> None]
    /\ IMAGES_CACHE = EmptyDict
    /\ LAST_CACHE_UPDATE = 0
    /\ imgResp = NoImageResponse
    /\ CPU_CACHE = << >>
    /\ containers = [n \in Range(ContainerNames) |->
                        [status |-> "Running", usage |-> 0, boot |-> 0]]
    /\ cache_boot = [n \in Range(ContainerNames) |-> 0]
    /\ poller = [p \in Pollers |-> None]
    /\ listResp = NoListResponse
    /\ sweeper = [s \in Sweepers |-> Idle]

Next ==
    \/ Tick(TaskTick)
    \/ create_container
    \/ stop_container
    \/ start_container
    \/ get_task_status_request
    \/ run_tracked_task(OutcomeKinds)

Spec == Init /\ [][Next]_vars

\* The runner on every stderr text, with the clock standing still.
RunnerNext ==
    \/ create_container
    \/ stop_container
    \/ start_container
    \/ get_task_status_request
    \/ run_tracked_task(ProcessOutcomes)

RunnerSpec == Init /\ [][RunnerNext]_vars

\* The image catalog and its clock.
ImageNext ==
    \/ Tick(ImageTick)
    \/ get_available_images
    \/ images_returned

ImageSpec == Init /\ [][ImageNext]_vars

\* The container listing served by one thread, its clock and the hypervisor:
\* the first container is busy, the others are idle.
CpuNext ==
    \/ Tick(ListTick)
    \/ \E name \in Range(ContainerNames) : lxc_started(name)
    \/ \E name \in Range(ContainerNames) : lxc_stopped(name)
    \/ \E reading \in CpuReadings : lxc_cpu_consumed(Head(ContainerNames), reading)
    \/ list_containers(1)
    \/ list_returned

CpuSpec == Init /\ [][CpuNext]_vars

\* The container listing served by two threads of the pool at once.
PollNext ==
    \/ Tick(ListTick)
    \/ \E reading \in CpuReadings : lxc_cpu_consumed(Head(ContainerNames), reading)
    \/ \E p \in Pollers : list_containers(p)
    \/ list_returned

PollSpec == Init /\ [][PollNext]_vars

\* get_task_status on two threads of the pool, with the handler that creates
\* tasks and the clock.
SweepNext ==
    \/ Tick(TaskTick)
    \/ create_container
    \/ \E s \in Sweepers : get_task_status_thread(s)

SweepSpec == Init /\ [][SweepNext]_vars

----------------------------------------------------------------------------
(* Properties of the task registry *)

Issued(i) == i \in TaskIds /\ pc[i] # "fresh"
Age(i) == now - Val(issued_at[i])
\* The handler has stored the record and the runner has not started.
BeforeRunner(i) == pc[i] \in {"inserted", "queued", "returned"}
\* The last step was a get_task_status call, for task id i.
Polled(i) == taskResp.code # 0 /\ taskResp.task_id = i

StatusMove(a, b) ==
    \/ a = b
    \/ a = "pending" /\ b = "running"
    \/ a = "running" /\ b \in Terminal

\* C1: the status of a task in TASK_STORE only moves pending -> running ->
\* success | error: a record enters the store pending, a terminal status is only
\* reached from running, and no step changes a terminal status.
C1_StatusOrder ==
    [][\A i \in TaskIds :
         /\ (i \notin DOMAIN TASK_STORE /\ i \in DOMAIN TASK_STORE')
               => TASK_STORE'[i].status = "pending"
         /\ (i \in DOMAIN TASK_STORE /\ i \in DOMAIN TASK_STORE')
               => StatusMove(TASK_STORE[i].status, TASK_STORE'[i].status)]_vars

C1_Witness ==
    \E i \in DOMAIN TASK_STORE :
        /\ pc[i] = "done"
        /\ TASK_STORE[i].status = "error"
        /\ \E j \in DOMAIN TASK_STORE : TASK_STORE[j].status = "success"

\* C2: the pending record is in TASK_STORE before the background task is queued
\* and before the id is returned, so as long as the runner has not started and
\* the expiry window has not elapsed the record is there with status pending,
\* and a get_task_status for the id answers 200 with status pending, never 404.
C2_PendingBeforeRunner ==
    \A i \in TaskIds :
        (BeforeRunner(i) /\ Age(i) < TASK_EXPIRY) =>
            /\ i \in DOMAIN TASK_STORE
            /\ TASK_STORE[i].status = "pending"
            /\ Polled(i) =>
                 /\ taskResp.code = 200
                 /\ Val(taskResp.body).status = "pending"

C2_Witness ==
    \E i \in TaskIds :
        /\ pc[i] = "returned"
        /\ Polled(i)
        /\ taskResp.code = 200
        /\ Val(taskResp.body).status = "pending"
        /\ Age(i) > 0

\* C3: in every reachable state, the intermediate states of run_tracked_task
\* included, completed_at is set if and only if status is success or error.
C3_CompletedIffTerminal ==
    \A i \in DOMAIN TASK_STORE :
        (TASK_STORE[i].completed_at # None) <=> (TASK_STORE[i].status \in Terminal)

\* C4 as claimed: a get_task_status for a task whose age is greater than or
\* equal to TASK_EXPIRY answers not-found, an age equal to the window included.
C4_ExpiredAtWindow ==
    \A i \in TaskIds :
        (Issued(i) /\ Polled(i) /\ Age(i) >= TASK_EXPIRY) => taskResp.code = 404

\* C4 as amended: a get_task_status for a task whose age is strictly greater
\* than TASK_EXPIRY answers not-found, whatever the status of the task.
C4_ExpiredPastWindow ==
    \A i \in TaskIds :
        (Issued(i) /\ Polled(i) /\ Age(i) > TASK_EXPIRY) =>
            /\ taskResp.code = 404
            /\ i \notin DOMAIN TASK_STORE

C4_Witness ==
    \E i \in TaskIds :
        /\ Issued(i) /\ Polled(i) /\ Age(i) > TASK_EXPIRY
        /\ taskResp.code = 404
        /\ pc[i] = "in_script"

\* C5: get_task_status answers not-found for an id no handler issued and
\* answers the stored record for an issued id younger than the window; only
\* the sweep of get_task_status removes a record, it removes none younger than
\* the window, and it changes no field of the records it keeps.
C5_SweepFrame ==
    /\ [](\A i \in TaskIds \cup {ForeignId} :
            Polled(i) =>
              /\ ~Issued(i) => taskResp.code = 404
              /\ (Issued(i) /\ Age(i) < TASK_EXPIRY) =>
                   /\ i \in DOMAIN TASK_STORE
                   /\ taskResp.code = 200
                   /\ taskResp.body = Some(TaskBody(TASK_STORE[i])))
    /\ [][/\ \A i \in DOMAIN TASK_STORE :
               i \notin DOMAIN TASK_STORE' =>
                 /\ taskResp'.code # 0
                 /\ now - TASK_STORE[i].created_at >= TASK_EXPIRY
          /\ taskResp'.code # 0 =>
               \A i \in DOMAIN TASK_STORE' :
                   i \in DOMAIN TASK_STORE /\ TASK_STORE'[i] = TASK_STORE[i]]_vars

C5_Witness ==
    \E i, j \in TaskIds :
        /\ Polled(i) /\ taskResp.code = 200 /\ Age(i) = TaskTick
        /\ Issued(j) /\ j \notin DOMAIN TASK_STORE
        /\ Val(taskResp.body).status = "running"

RunnerEnded(i) == pc[i] \in {"done", "raised_KeyError", "raised_OSError"}

\* C6: run_script reports every outcome of the external command as a value and
\* never raises, so a runner that was started never ends with its task short of
\* success or error.
C6_RunnerEndsTerminal ==
    \A i \in TaskIds :
        /\ pc[i] # "raised_OSError"
        /\ (RunnerEnded(i) /\ i \in DOMAIN TASK_STORE)
              => TASK_STORE[i].status \in Terminal

AllWhitespace(s) == \A k \in 1..Len(s) : s[k] \in Whitespace

\* e is s without its leading and trailing whitespace.
IsTrimOf(e, s) ==
    /\ e = << >> \/ (e[1] \notin Whitespace /\ e[Len(e)] \notin Whitespace)
    /\ \E lo \in 1..(Len(s) + 1) : \E hi \in 0..Len(s) :
         /\ e = SubSeq(s, lo, hi)
         /\ AllWhitespace(SubSeq(s, 1, lo - 1))
         /\ AllWhitespace(SubSeq(s, hi + 1, Len(s)))

\* C7: when run_script reports failure the task ends in error, with error the
\* stderr text without its leading and trailing whitespace when that is not
\* empty (stderr "disk full" gives "disk full") and "Unknown error occurred"
\* otherwise; when it reports success the task ends in success with a message
\* naming the action and the target.
C7_FinalText ==
    \A i \in DOMAIN TASK_STORE :
        pc[i] = "done" =>
            LET task == TASK_STORE[i]
                res == Val(result[i])
            IN  IF res.success
                THEN /\ task.status = "success"
                     /\ task.message =
                          Some(task.action \o " completed successfully for " \o task.target)
                ELSE /\ task.status = "error"
                     /\ task.error # None
                     /\ Val(task.error) # << >>
                     /\ res.stderr = DiskFull => Val(task.error) = DiskFull
                     /\ IF AllWhitespace(res.stderr)
                        THEN Val(task.error) = UnknownError
                        ELSE IsTrimOf(Val(task.error), res.stderr)

C7_Witness ==
    \E i, j \in DOMAIN TASK_STORE :
        /\ pc[i] = "done" /\ pc[j] = "done"
        /\ TASK_STORE[i].error = Some(DiskFull)
        /\ Val(result[i]).stderr # DiskFull
        /\ TASK_STORE[j].error = Some(UnknownError)
        /\ Val(result[j]).stderr # << >>

----------------------------------------------------------------------------
(* Properties of the image catalog *)

\* The step is a get_available_images call.
ImagesCalled == imgResp = NoImageResponse /\ imgResp' # NoImageResponse

\* C8: after a successful refresh at LAST_CACHE_UPDATE, whatever catalog it
\* produced, a call less than CACHE_DURATION later returns that catalog without
\* an external query, and a call at or after CACHE_DURATION issues one query.
C8_ServedFromCache ==
    [][(LAST_CACHE_UPDATE # 0 /\ ImagesCalled) =>
          IF now - LAST_CACHE_UPDATE < CACHE_DURATION
          THEN /\ imgResp'.queries = 0
               /\ imgResp'.ret = Some(IMAGES_CACHE)
          ELSE imgResp'.queries = 1]_vars

\* C9: a call whose refresh fails returns the empty catalog and leaves
\* IMAGES_CACHE and LAST_CACHE_UPDATE as they were before the call.
C9_FailedRefreshKeepsCache ==
    [][(ImagesCalled /\ imgResp'.queries = 1 /\ imgResp'.query # "ok") =>
          /\ imgResp'.ret = Some(EmptyDict)
          /\ IMAGES_CACHE' = IMAGES_CACHE
          /\ LAST_CACHE_UPDATE' = LAST_CACHE_UPDATE]_vars

C9_Witness ==
    /\ imgResp.query \in {"nonzero", "oserror", "unparsable"}
    /\ imgResp.ret = Some(EmptyDict)
    /\ DOMAIN IMAGES_CACHE # {}
    /\ now - LAST_CACHE_UPDATE >= CACHE_DURATION

Present(o) == o # None /\ Val(o) # << >>
HasBoth(img) == Present(img.properties.os) /\ Present(img.properties.release)

\* k is the text s with its upper-case letters replaced by the lower-case ones.
IsLowerOf(k, s) ==
    /\ Len(k) = Len(s)
    /\ \A j \in 1..Len(s) :
         \/ s[j] \notin Range(UpperChars) /\ k[j] = s[j]
         \/ \E n \in DOMAIN UpperChars : s[j] = UpperChars[n] /\ k[j] = LowerChars[n]

\* The images of family k that count: both fields present, OS equal to k up to case.
Counted(raw, k) ==
    {img \in Range(raw) : HasBoth(img) /\ IsLowerOf(k, Val(img.properties.os))}

\* C10: a successful refresh stores and returns the catalog whose keys are the
\* allow-listed lower-cased OS families of the images that have an OS and a
\* release, each with the distinct releases of that family in descending
\* lexicographic order; fedora gives nothing, Ubuntu 24.04 gives ubuntu -> 24.04.
C10_Catalog ==
    imgResp.query = "ok" =>
        LET catalog == Val(imgResp.ret)
            raw == imgResp.raw
        IN  /\ IMAGES_CACHE = catalog
            /\ DOMAIN catalog = {k \in Range(WHITELIST_OS) : Counted(raw, k) # {}}
            /\ \A k \in DOMAIN catalog :
                 /\ Range(catalog[k]) = {Val(img.properties.release) : img \in Counted(raw, k)}
                 /\ Len(catalog[k]) = Cardinality(Range(catalog[k]))
                 /\ \A a, b \in 1..Len(catalog[k]) :
                      a < b => TextLess(catalog[k][b], catalog[k][a])
            /\ Str_fedora \notin DOMAIN catalog
            /\ Image(Some(Str_Ubuntu), Some(Str_24_04)) \in Range(raw)
                  => /\ Str_ubuntu \in DOMAIN catalog
                     /\ Str_24_04 \in Range(catalog[Str_ubuntu])

C10_Witness ==
    /\ imgResp.query = "ok"
    /\ Image(Some(Str_fedora), Some(Str_9)) \in Range(imgResp.raw)
    /\ Image(Some(Str_Ubuntu), Some(Str_24_04)) \in Range(imgResp.raw)
    /\ DOMAIN IMAGES_CACHE = {Str_ubuntu}
    /\ IMAGES_CACHE[Str_ubuntu] = <<Str_9, Str_24_04>>

----------------------------------------------------------------------------
(* Properties of the container listing *)

\* The last step was a list_containers call that answered a listing.
Listed == listResp.kind = "ok"
Items == DOMAIN listResp.raw
Seen(k) == listResp.raw[k].c
\* Item k of the listing was Running and had state data.
SeenRunning(k) == Seen(k).status = "Running" /\ Seen(k).state # None
Reported(k) == listResp.containers[k]
ReportedRate(k) == Reported(k).cpu_time[1].hundredths
\* The sample the call found in CPU_CACHE for item k, and its distance.
HadSample(k) == Seen(k).name \in DOMAIN listResp.before
SampleBefore(k) == listResp.before[Seen(k).name]
TimeDelta(k) == listResp.current_time - SampleBefore(k).time
CounterDelta(k) == Val(Seen(k).state).cpu - SampleBefore(k).usage
Abs(x) == IF x < 0 THEN -x ELSE x

\* C11 as claimed: for a Running container the reported rate is 0 without a
\* cached sample, 0 when the cached sample is not older than the call, and
\* otherwise exactly ((c1 - c0) / 1e9) / (t1 - t0) * 100.
C11_ExactRate ==
    Listed =>
        \A k \in Items : SeenRunning(k) =>
            IF ~HadSample(k) \/ TimeDelta(k) <= 0
            THEN ReportedRate(k) = 0
            ELSE ReportedRate(k) * UnitsPerSecond * TimeDelta(k)
                    = CounterDelta(k) * PERCENT * pow10(ROUND_DIGITS)

\* C11 as amended: for a Running container the reported rate is 0 without a
\* cached sample, 0 when the cached sample is not older than the call, and
\* otherwise ((c1 - c0) / 1e9) / (t1 - t0) * 100 rounded to two decimal
\* places; the samples (t, 5e9), (t + 1, 6e9) give 100.0.
C11_RoundedRate ==
    Listed =>
        \A k \in Items : SeenRunning(k) =>
            IF ~HadSample(k) \/ TimeDelta(k) <= 0
            THEN Reported(k).cpu_time = <<IntZero, "%">>
            ELSE /\ Reported(k).cpu_time[1].float
                 /\ 2 * Abs(ReportedRate(k) * UnitsPerSecond * TimeDelta(k)
                            - CounterDelta(k) * PERCENT * pow10(ROUND_DIGITS))
                        <= UnitsPerSecond * TimeDelta(k)
                 /\ (TimeDelta(k) = 1 /\ CounterDelta(k) = UnitsPerSecond)
                        => ReportedRate(k) = PERCENT * pow10(ROUND_DIGITS)

C11_Witness ==
    /\ Listed
    /\ \E k \in Items :
          /\ SeenRunning(k) /\ HadSample(k) /\ TimeDelta(k) > 1
          /\ ReportedRate(k) * UnitsPerSecond * TimeDelta(k)
                # CounterDelta(k) * PERCENT * pow10(ROUND_DIGITS)
    /\ \E k \in Items : SeenRunning(k) /\ HadSample(k) /\ TimeDelta(k) = 0

\* C12: list_containers never computes a rate from a CPU_CACHE entry that was
\* written before the container was restarted: when a call derives a rate for
\* a container, the cached sample was taken in the container's current boot.
C12_NoSampleAcrossRestart ==
    [][(listResp.kind = "none" /\ listResp'.kind = "ok") =>
          \A k \in DOMAIN listResp'.raw :
              LET c == listResp'.raw[k].c
              IN  (/\ c.status = "Running" /\ c.state # None
                   /\ c.name \in DOMAIN CPU_CACHE
                   /\ listResp'.current_time - CPU_CACHE[c.name].time > 0)
                  => cache_boot[c.name] = containers[c.name].boot]_vars

Execs(name) == {i \in DOMAIN listResp.execs : listResp.execs[i][1] = name}

\* C13: for a container whose status is not Running, list_containers issues
\* no lxc exec, reports ipv4 "-", memory 0, disk 0 and CPU "0%", and leaves
\* the container's CPU_CACHE entry as it was.
C13_StoppedUntouched ==
    Listed =>
        \A k \in Items : Seen(k).status # "Running" =>
            /\ Execs(Seen(k).name) = {}
            /\ Reported(k).ipv4 = "-"
            /\ Reported(k).memory = 0
            /\ Reported(k).disk = 0
            /\ Reported(k).cpu_time = <<IntZero, "%">>
            /\ HadSample(k) <=> Seen(k).name \in DOMAIN CPU_CACHE
            /\ HadSample(k) => CPU_CACHE[Seen(k).name] = SampleBefore(k)

C13_Witness ==
    /\ Listed
    /\ \E k \in Items :
          /\ Seen(k).status = "Stopped" /\ Seen(k).state # None
          /\ Val(Seen(k).state).memory = 0
          /\ Val(Seen(k).state).network # << >>
          /\ HadSample(k)
    /\ listResp.execs # << >>

RECURSIVE scan_addresses_first(_, _, _)
scan_addresses_first(addresses, ipv4, found) ==
    IF addresses = << >> THEN [ipv4 |-> ipv4, found |-> found]
    ELSE IF Head(addresses).family = "inet" /\ ~found
         THEN scan_addresses_first(Tail(addresses), Head(addresses).address, TRUE)
         ELSE scan_addresses_first(Tail(addresses), ipv4, found)

RECURSIVE first_ipv4_from(_, _, _)
first_ipv4_from(network, ipv4, found) ==
    IF network = << >> THEN ipv4
    ELSE LET net == Head(network)
             r == IF net.ifname # "lo" /\ net.is_dict
                  THEN scan_addresses_first(net.addresses, ipv4, found)
                  ELSE [ipv4 |-> ipv4, found |-> found]
         IN  first_ipv4_from(Tail(network), r.ipv4, r.found)

\* C14: the ipv4 reported for a Running container is the first inet address
\* found, in listing order, among the interfaces other than lo, and "-" when
\* there is none.
C14_FirstAddress ==
    Listed =>
        \A k \in Items : SeenRunning(k) =>
            Reported(k).ipv4 = first_ipv4_from(Val(Seen(k).state).network, "-", FALSE)

\* C17: for every container name, the sample time stored in CPU_CACHE never
\* decreases, in every interleaving of concurrent list_containers calls.
C17_SampleTimeMonotone ==
    [][\A n \in DOMAIN CPU_CACHE :
          n \in DOMAIN CPU_CACHE' /\ CPU_CACHE'[n].time >= CPU_CACHE[n].time]_vars

\* C18: each time list_containers observes a container Running with state
\* data at time t1 with counter c1, CPU_CACHE[name] is (t1, c1) afterwards,
\* whichever branch of the rate derivation ran and whether or not the memory
\* or disk fallback commands failed.
C18_CacheAfter ==
    Listed =>
        \A k \in Items : SeenRunning(k) =>
            /\ Seen(k).name \in DOMAIN CPU_CACHE
            /\ CPU_CACHE[Seen(k).name]
                  = Sample(listResp.current_time, Val(Seen(k).state).cpu)

C18_Witness ==
    /\ Listed
    /\ \E k \in Items :
          /\ SeenRunning(k) /\ HadSample(k) /\ TimeDelta(k) = 0
          /\ listResp.raw[k].free.raised
          /\ <<Seen(k).name, "free">> \in Range(listResp.execs)
          /\ Reported(k).memory = 0
          /\ CPU_CACHE[Seen(k).name] # SampleBefore(k)
    /\ \E k \in Items : SeenRunning(k) /\ ~HadSample(k)

ProxiesOf(k) == {i \in DOMAIN Seen(k).devices : Seen(k).devices[i].type = "proxy"}
EntriesFor(name, dev_name) ==
    {i \in DOMAIN listResp.redirections :
        /\ listResp.redirections[i].container = name
        /\ listResp.redirections[i].device_name = dev_name}

\* C20: the redirections list holds exactly the proxy devices of the
\* containers that are Running with state data, one entry per device, with
\* the container name and the device name; no device of another type and no
\* device of a container that is not Running is in it.
C20_Redirections ==
    Listed =>
        /\ \A k \in Items : SeenRunning(k) =>
              \A i \in ProxiesOf(k) :
                  Cardinality(EntriesFor(Seen(k).name, Seen(k).devices[i].dev_name)) = 1
        /\ \A e \in Range(listResp.redirections) :
              \E k \in Items :
                  /\ SeenRunning(k) /\ Seen(k).name = e.container
                  /\ \E i \in ProxiesOf(k) :
                        /\ Seen(k).devices[i].dev_name = e.device_name
                        /\ Seen(k).devices[i].listen = e.listen
                        /\ Seen(k).devices[i].connect = e.connect

C20_Witness ==
    /\ Listed
    /\ Len(listResp.redirections) >= 2
    /\ \E k \in Items :
          /\ SeenRunning(k)
          /\ ProxiesOf(k) # {} /\ ProxiesOf(k) # DOMAIN Seen(k).devices
    /\ \E k \in Items : ~SeenRunning(k) /\ ProxiesOf(k) # {}

----------------------------------------------------------------------------
(* Properties of the task registry under concurrent calls *)

\* C15: in every interleaving of get_task_status calls with a running
\* run_tracked_task, the record of the task is in TASK_STORE at both places
\* the runner looks it up, so the runner never fails on a missing record.
C15_RunnerFindsRecord ==
    \A i \in TaskIds : pc[i] # "raised_KeyError"

\* C16: with two or more get_task_status calls running at once and tasks
\* being created, cleanup_old_tasks never fails on an id another sweep has
\* already deleted (KeyError) nor on a store that changed while it was
\* scanned (RuntimeError): every call ends with the record or with not-found.
C16_SweepNeverFails ==
    \A s \in Sweepers : sweeper[s].pc \notin {"raised_KeyError", "raised_RuntimeError"}

\* C19: in every reachable state, the states in the middle of
\* run_tracked_task included, a record's message is set only if its status
\* is success, its error is set only if its status is error, and the two are
\* never both set.
C19_TextMatchesStatus ==
    \A i \in DOMAIN TASK_STORE :
        /\ TASK_STORE[i].message # None => TASK_STORE[i].status = "success"
        /\ TASK_STORE[i].error # None => TASK_STORE[i].status = "error"
        /\ TASK_STORE[i].message = None \/ TASK_STORE[i].error = None

C19_Witness ==
    \E i, j \in DOMAIN TASK_STORE :
        /\ pc[i] = "done" /\ TASK_STORE[i].message # None
        /\ pc[j] = "status_set" /\ TASK_STORE[j].status = "error"
        /\ TASK_STORE[j].error = None

============================================================================
